---- MODULE Spec2Model ----
(***************************************************************************)
(* Model of the Lenta catalogue harvester.                                 *)
(*                                                                         *)
(*  - main.py: the per-city loop of main(), LentaAPI.get_products (offset  *)
(*    pagination, formatting) and CSVWriter.write_products.                *)
(*  - oop_test.py: process_products_parallel over a ThreadPoolExecutor,    *)
(*    ProductParser.parse_product and LentaAPI.get_product_details.        *)
(*  - the per-item functions of both files (_extract_brand, the formatting *)
(*    of get_products, extract_brand, parse_product) applied to one item.  *)
(*  - the end of get_products and write_products, for lists longer than   *)
(*    the row limit of the writer.                                         *)
(*                                                                         *)
(* Optional values are sequences of length at most one: <<>> is "absent",  *)
(* <<v>> is "present with v". A price is absent when its key is missing or *)
(* its value is null, which the code does not tell apart. For "id" it      *)
(* does: the entry is absent (key missing) or present with a value, and    *)
(* the value is itself None (null) or Some(n); the id of an output record  *)
(* is that value.                                                          *)
(***************************************************************************)
EXTENDS Integers, Sequences, FiniteSets, TLC

\* ---------------------------------------------------------------- bounds

\* Largest total_needed passed to get_products in the model.
MaxNeeded == 3
\* Largest number of items the listing endpoint returns in one response.
MaxPage == 2
\* Largest number of input items of process_products_parallel.
MaxItems == 3
\* Largest number of whitespace-separated tokens of an item's name.
MaxTokens == 3
\* Largest number of attributes of an item.
MaxAttrs == 2
\* How far total_needed goes beyond the row limit of write_products.
MaxOver == 2
\* A page size below MaxNeeded, besides the one of config.py.
SmallPage == 2

\* ------------------------------------------------------------- constants

\* config.py: PRODUCTS_PER_STORE (the page size of get_products).
PRODUCTS_PER_STORE == 100
\* main.py: CSVWriter.write_products keeps products[:100].
CSV_MAX_ROWS == 100
\* oop_test.py: MAX_WORKERS, the default max_workers.
MAX_WORKERS == 2
\* The statuses of a listing response in the model: 200, the only one
\* get_products accepts, and 500 for every other.
StatusCodes == {200, 500}

\* config.py: MIN_BRAND_LENGTH.
MIN_BRAND_LENGTH == 1
\* config.py: BRAND_ATTRIBUTE_ALIAS and BRAND_ATTRIBUTE_NAME (transliterated).
BRAND_ATTRIBUTE_ALIAS == "brand"
BRAND_ATTRIBUTE_NAME == "Brend"

\* config.py: CITIES, in iteration order (dict insertion order).
CITIES == <<"Moskva", "Sankt-Peterburg">>
CityNames == {CITIES[i] : i \in 1..Len(CITIES)}

\* --------------------------------------------------------------- helpers

None == <<>>
Some(v) == <<v>>
IsNone(o) == o = <<>>
ValueOf(o) == o[1]

Min(a, b) == IF a <= b THEN a ELSE b

\* Python's s[:n] for n >= 0.
Take(s, n) == SubSeq(s, 1, Min(Len(s), n))

\* A slip: p // 100, which loses the hundredths.
Div100_Floor(p) == [whole |-> p \div 100, frac |-> 0]

\* A price in the display unit, p / 100, kept exact as whole and hundredths.
Div100(p) == [whole |-> p \div 100, frac |-> p % 100]

\* --------------------------------------------------------------- strings

\* A string the program takes apart or builds (an item's name, a brand) is
\* the sequence of its characters; "" is <<>>.
UpperLetters ==
    {"A", "B", "C", "D", "E", "F", "G", "H", "I", "J", "K", "L", "M",
     "N", "O", "P", "Q", "R", "S", "T", "U", "V", "W", "X", "Y", "Z"}
LowerLetters ==
    {"a", "b", "c", "d", "e", "f", "g", "h", "i", "j", "k", "l", "m",
     "n", "o", "p", "q", "r", "s", "t", "u", "v", "w", "x", "y", "z"}
Whitespace == {" "}

\* str.isupper(): at least one cased character, and no lower-case one.
isupper(str) ==
    /\ \E i \in 1..Len(str) : str[i] \in UpperLetters
    /\ \A i \in 1..Len(str) : str[i] \notin LowerLetters

\* str.split(): the maximal runs of non-whitespace characters, in order.
RECURSIVE SplitAcc(_, _, _)
SplitAcc(str, cur, acc) ==
    IF str = <<>> THEN (IF cur = <<>> THEN acc ELSE Append(acc, cur))
    ELSE IF Head(str) \in Whitespace
         THEN SplitAcc(Tail(str), <<>>, IF cur = <<>> THEN acc ELSE Append(acc, cur))
         ELSE SplitAcc(Tail(str), Append(cur, Head(str)), acc)

split(str) == SplitAcc(str, <<>>, <<>>)

\* " ".join(parts)
RECURSIVE join(_)
join(parts) ==
    IF parts = <<>> THEN <<>>
    ELSE IF Len(parts) = 1 THEN parts[1]
         ELSE parts[1] \o <<" ">> \o join(Tail(parts))

\* ----------------------------------------------------------------- items

\* The "prices" entry of a raw item: the key missing, JSON null, or a block.
PricesMissing == [kind |-> "missing", priceRegular |-> None, price |-> None]
PricesNull == [kind |-> "null", priceRegular |-> None, price |-> None]
\* A block carries both subunit prices (12999 is 129.99 in the display unit).
PricesBlock == [kind |-> "block", priceRegular |-> Some(12999), price |-> Some(9900)]

\* Raw items of the listing endpoint at source position p (1-based).
\* "COCA COLA Light" without attributes, and "PEPSI MAX" with a brand attribute.
NameCola == <<"C", "O", "C", "A", " ", "C", "O", "L", "A", " ", "L", "i", "g", "h", "t">>
NamePepsi == <<"P", "E", "P", "S", "I", " ", "M", "A", "X">>
AttrWeight == [alias |-> "weight", name |-> "Ves", value |-> <<"1", "k", "g">>]
AttrBrand == [alias |-> "brand", name |-> "Brend", value |-> <<"P", "e", "p", "s", "i">>]
NameAt(p) == IF p % 2 = 1 THEN NameCola ELSE NamePepsi
AttributesAt(p) == IF p % 2 = 1 THEN <<>> ELSE <<AttrWeight, AttrBrand>>

Item(p, id, prices) ==
    [id |-> id, name |-> NameAt(p), prices |-> prices, attributes |-> AttributesAt(p)]

\* The "id" entry of a raw item: the key missing is None, the key present
\* is Some(value), the value None for JSON null and Some(n) for the number n.
IdMissing == None
IdNull == Some(None)
IdOf(n) == Some(Some(n))

GoodItem(p) == Item(p, IdOf(p), PricesBlock)
NoIdItem(p) == Item(p, IdMissing, PricesBlock)
NoPricesItem(p) == Item(p, IdOf(p), PricesMissing)
ItemsAt(p) == {GoodItem(p), NoIdItem(p), NoPricesItem(p)}

\* The pages the listing endpoint may answer to a request at `off`: any
\* number of items up to MaxPage (the endpoint is not bound by "limit"),
\* the i-th of them the item at source position off + i.
RECURSIVE PagesOfLen(_, _)
PagesOfLen(off, k) ==
    IF k = 0 THEN {<<>>}
    ELSE {Append(pg, it) : pg \in PagesOfLen(off, k - 1), it \in ItemsAt(off + k)}

PagesAt(off) == UNION {PagesOfLen(off, k) : k \in 0..MaxPage}

\* ------------------------------------------------------------------ state

VARIABLES
    \* main.py, main() and LentaAPI.get_products
    total_needed,   \* the total_needed argument of get_products
    page_size,      \* config.PRODUCTS_PER_STORE as get_products reads it
    store_ids,      \* the cities config.STORE_IDS has an entry for
    city_idx,       \* position of the for loop of main() in CITIES
    pc,             \* where main() is suspended
    collected,      \* get_products: collected
    offset,         \* get_products: offset
    products,       \* the list get_products returned to main()
    written,        \* per city: the rows in its CSV file, None if none was written
    \* history of the run for the current city
    requests,       \* the listing requests issued: <<[offset, limit], ...>>
    responses,      \* the listing responses received: <<[status, n, ids], ...>>
    \* history of main()
    started,        \* the cities whose loop body was entered
    failed,         \* the cities whose harvesting failed (error response or exception)
    handed,         \* per city: the list handed to write_products, None if no call
    outcome         \* how get_products ended for the current city

mainVars == <<total_needed, page_size, store_ids, city_idx, pc, collected, offset,
              products, written, requests, responses, started, failed, handed, outcome>>

VARIABLES
    \* oop_test.py, process_products_parallel
    e_products,     \* the products argument
    max_workers,    \* the max_workers argument
    e_pc,           \* where the calling thread is
    submitted,      \* how many items executor.submit was called for
    task,           \* per item: the state of its parse_product task
    fut,            \* per item: the result of its future, None for a None result
    finish_order,   \* the items in the order their futures finished
    snapshot,       \* the futures already finished when as_completed began
    yielded,        \* the items in the order as_completed yielded them
    results,        \* process_products_parallel: results
    completed,      \* process_products_parallel: completed
    \* history
    detail_calls,   \* per item: the detail requests issued for it
    detail_failed   \* the items whose detail request failed

enrichVars == <<e_products, max_workers, e_pc, submitted, task, fut, finish_order,
                snapshot, yielded, results, completed, detail_calls, detail_failed>>

VARIABLES
    \* one call of a per-item function
    r_item,         \* the raw item the function is called with
    r_call,         \* the function called, "none" before the call
    r_out           \* what the call returned (or that it raised)

itemVars == <<r_item, r_call, r_out>>

VARIABLES
    \* the end of get_products and write_products, for one list
    w_needed,       \* the total_needed argument of get_products
    w_collected,    \* get_products: collected, when the loop is left
    w_pc,           \* where the run is
    w_products,     \* the list get_products returns, handed to write_products
    w_rows          \* the rows of the file after the header, None if not written

writeVars == <<w_needed, w_collected, w_pc, w_products, w_rows>>

vars == <<mainVars, enrichVars, itemVars, writeVars>>

\* ------------------------------------------------ get_products (main.py)

\* A slip: the limit is what is still needed, without the min.
CurrentLimit_NoMin(coll, needed) == needed - Len(coll)

\* current_limit = min(PRODUCTS_PER_STORE, total_needed - len(collected))
CurrentLimit(coll, needed) == Min(page_size, needed - Len(coll))

\* The payload of the listing request: its pagination fields.
Payload(coll, off, needed) == [offset |-> off, limit |-> CurrentLimit(coll, needed)]

\* A slip: while len(collected) <= total_needed.
LoopCondition_OffByOne(coll, needed) == Len(coll) <= needed

\* while len(collected) < total_needed
LoopCondition(coll, needed) == Len(coll) < needed

\* if len(collected) >= total_needed (the break after extend)
CountSatisfied(coll, needed) == Len(coll) >= needed

\* A slip: the items of the page are not added.
ExtendCollected_Drops(coll, items, needed) == coll

\* A slip: the new items are put in front of the collected ones.
ExtendCollected_Prepends(coll, items, needed) == Take(items, needed - Len(coll)) \o coll

\* A slip: collected = items[:remaining] in place of collected.extend(...).
ExtendCollected_Overwrites(coll, items, needed) == Take(items, needed - Len(coll))

\* remaining = total_needed - len(collected); collected.extend(items[:remaining])
ExtendCollected(coll, items, needed) == coll \o Take(items, needed - Len(coll))

\* A slip: offset = len(items) in place of offset += len(items).
NextOffset_Restarts(off, items) == Len(items)

\* A slip: the offset advanced by one per response, not by the page's length.
NextOffset_ByOne(off, items) == off + 1

\* offset += len(items)
NextOffset(off, items) == off + Len(items)

\* collected = collected[:total_needed]
Truncate(coll, needed) == Take(coll, needed)

\* item["id"] raises KeyError when the key is missing (a null id is read
\* like any value); item["prices"]["priceRegular"] / 100 and
\* item["prices"]["price"] / 100 raise KeyError or TypeError unless "prices"
\* is a block and both prices are numbers.
FormatRaises(item) ==
    \/ item.id = IdMissing
    \/ item.prices.kind # "block"
    \/ IsNone(item.prices.priceRegular)
    \/ IsNone(item.prices.price)

\* A slip: only the alias is compared.
IsBrandAttribute_AliasOnly(attr) == attr.alias = BRAND_ATTRIBUTE_ALIAS

\* if attr.get("alias") == BRAND_ATTRIBUTE_ALIAS or attr.get("name") == ...
IsBrandAttribute(attr) ==
    attr.alias = BRAND_ATTRIBUTE_ALIAS \/ attr.name = BRAND_ATTRIBUTE_NAME

\* The value of the first brand attribute, None without one.
RECURSIVE FirstBrand(_)
FirstBrand(attrs) ==
    IF attrs = <<>> THEN None
    ELSE IF IsBrandAttribute(attrs[1]) THEN Some(attrs[1].value)
         ELSE FirstBrand(Tail(attrs))

\* part.isupper() and len(part) > MIN_BRAND_LENGTH
Qualifies(part) == isupper(part) /\ Len(part) > MIN_BRAND_LENGTH

\* The while loop of _extract_brand: the qualifying parts at the front.
RECURSIVE BrandRun(_)
BrandRun(parts) ==
    IF parts = <<>> \/ ~Qualifies(Head(parts)) THEN <<>>
    ELSE <<Head(parts)>> \o BrandRun(Tail(parts))

\* A slip: no break, every qualifying part of the name is taken.
BrandParts_AllQualifying(parts) == SelectSeq(parts, Qualifies)

\* The for loop of _extract_brand: the run that starts at the first
\* qualifying part, and nothing after it (break).
RECURSIVE BrandParts(_)
BrandParts(parts) ==
    IF parts = <<>> THEN <<>>
    ELSE IF Qualifies(Head(parts)) THEN BrandRun(parts)
         ELSE BrandParts(Tail(parts))

\* LentaAPI._extract_brand
ExtractBrand(item) ==
    IF FirstBrand(item.attributes) # None
    THEN ValueOf(FirstBrand(item.attributes))
    ELSE join(BrandParts(split(item.name)))

\* One element of formatted_products; 'id' is item["id"], None for null.
FormatItem(item) ==
    [id |-> ValueOf(item.id),
     name |-> item.name,
     brand |-> ExtractBrand(item),
     regular_price |-> Div100(ValueOf(item.prices.priceRegular)),
     promo_price |-> Div100(ValueOf(item.prices.price))]

\* The list comprehension raises at the first item that cannot be formatted.
FormattingRaises(coll) == \E i \in 1..Len(coll) : FormatRaises(coll[i])

FormattedProducts(coll) == [i \in 1..Len(coll) |-> FormatItem(coll[i])]

\* A slip: writer.writerows(products), without the slice.
RowsWritten_All(prods) == prods

\* A slip: on an error response the items collected so far are returned.
ErrorResult_Partial(coll) == coll

\* What get_products returns on a response whose status is not 200.
ErrorResult(coll) == <<>>

\* products[:100], the rows write_products writes after the header.
RowsWritten(prods) == Take(prods, CSV_MAX_ROWS)

\* ------------------------------------------------------- main() (main.py)

City == CITIES[city_idx]

\* A slip: the exception is logged and re-raised, which ends main().
CaughtInMain_Reraises(why) ==
    /\ outcome' = why
    /\ failed' = failed \cup {City}
    /\ city_idx' = city_idx
    /\ pc' = "finished"
    /\ products' = <<>>
    /\ UNCHANGED <<written, handed>>

\* except Exception: the error is logged and the for loop goes on.
CaughtInMain(why) ==
    /\ outcome' = why
    /\ failed' = failed \cup {City}
    /\ city_idx' = city_idx + 1
    /\ pc' = "next_city"
    /\ products' = <<>>
    /\ UNCHANGED <<written, handed>>

\* get_products left its loop with `coll`: truncate, format, return to
\* main(), which goes on to write_products; a KeyError is caught in main().
LoopExit(coll) ==
    /\ collected' = Truncate(coll, total_needed)
    /\ IF FormattingRaises(Truncate(coll, total_needed))
       THEN CaughtInMain("raised")
       ELSE /\ products' = FormattedProducts(Truncate(coll, total_needed))
            /\ outcome' = "returned"
            /\ pc' = "write"
            /\ UNCHANGED <<city_idx, failed, written, handed>>

\* The while head: issue the next listing request, or leave the loop.
LoopHead(reqs, coll, off) ==
    IF LoopCondition(coll, total_needed)
    THEN /\ requests' = Append(reqs, Payload(coll, off, total_needed))
         /\ collected' = coll
         /\ pc' = "await_response"
         /\ outcome' = "running"
         /\ UNCHANGED <<city_idx, products, failed, written, handed>>
    ELSE /\ requests' = reqs
         /\ LoopExit(coll)

\* for city in CITIES: try: api.get_store() ... get_products(...) up to the
\* first listing request.
StartCity ==
    /\ UNCHANGED <<enrichVars, itemVars, writeVars>>
    /\ pc = "next_city"
    /\ city_idx <= Len(CITIES)
    /\ started' = started \cup {City}
    /\ responses' = <<>>
    /\ offset' = 0
    /\ IF City \notin store_ids
       THEN \* STORE_IDS[self.city] raises KeyError in get_store
            /\ CaughtInMain("no_store")
            /\ requests' = <<>>
            /\ collected' = <<>>
       ELSE \* collected = []; offset = 0; while ...
            LoopHead(<<>>, <<>>, 0)
    /\ UNCHANGED <<total_needed, page_size, store_ids>>

\* if response.status != 200: return []
ResponseError ==
    /\ UNCHANGED <<enrichVars, itemVars, writeVars>>
    /\ pc = "await_response"
    /\ responses' = Append(responses, [status |-> 500, n |-> 0, ids |-> <<>>])
    /\ products' = ErrorResult(collected)
    /\ failed' = failed \cup {City}
    /\ outcome' = "aborted"
    /\ pc' = "write"
    /\ UNCHANGED <<total_needed, page_size, store_ids, city_idx, collected, offset, written,
                   requests, started, handed>>

\* self.session.post raises (connection error, timeout): the exception
\* leaves get_products and is caught in main().
TransportError ==
    /\ UNCHANGED <<enrichVars, itemVars, writeVars>>
    /\ pc = "await_response"
    /\ CaughtInMain("transport_error")
    /\ UNCHANGED <<total_needed, page_size, store_ids, collected, offset, requests, responses,
                   started>>

\* The "id" entries of the items of a page, in order.
IdsOf(items) == [i \in 1..Len(items) |-> items[i].id]

\* A slip: "if not items: return []", the empty page treated as an error.
ResponseItems_EmptyDiscards(items) ==
    /\ UNCHANGED <<enrichVars, itemVars, writeVars>>
    /\ pc = "await_response"
    /\ responses' = Append(responses, [status |-> 200, n |-> Len(items), ids |-> IdsOf(items)])
    /\ IF Len(items) = 0
       THEN /\ products' = <<>>
            /\ outcome' = "aborted"
            /\ pc' = "write"
            /\ UNCHANGED <<collected, offset, requests, city_idx, failed, written, handed>>
       ELSE IF CountSatisfied(ExtendCollected(collected, items, total_needed), total_needed)
       THEN /\ LoopExit(ExtendCollected(collected, items, total_needed))
            /\ UNCHANGED <<offset, requests>>
       ELSE /\ collected' = ExtendCollected(collected, items, total_needed)
            /\ offset' = NextOffset(offset, items)
            /\ pc' = "sleep"
            /\ UNCHANGED <<city_idx, products, failed, written, handed, requests, outcome>>
    /\ UNCHANGED <<total_needed, page_size, store_ids, started>>

\* A slip: no asyncio.sleep, the next request follows the response at once.
ResponseItems_NoDelay(items) ==
    /\ UNCHANGED <<enrichVars, itemVars, writeVars>>
    /\ pc = "await_response"
    /\ responses' = Append(responses, [status |-> 200, n |-> Len(items), ids |-> IdsOf(items)])
    /\ IF Len(items) = 0
       THEN /\ LoopExit(collected)
            /\ UNCHANGED <<offset, requests>>
       ELSE IF CountSatisfied(ExtendCollected(collected, items, total_needed), total_needed)
       THEN /\ LoopExit(ExtendCollected(collected, items, total_needed))
            /\ UNCHANGED <<offset, requests>>
       ELSE /\ offset' = NextOffset(offset, items)
            /\ LoopHead(requests, ExtendCollected(collected, items, total_needed),
                        NextOffset(offset, items))
    /\ UNCHANGED <<total_needed, page_size, store_ids, started>>

\* A 200 response with the page `items`.
ResponseItems(items) ==
    /\ UNCHANGED <<enrichVars, itemVars, writeVars>>
    /\ pc = "await_response"
    /\ responses' = Append(responses, [status |-> 200, n |-> Len(items), ids |-> IdsOf(items)])
    /\ IF Len(items) = 0
       THEN \* if not items: break
            /\ LoopExit(collected)
            /\ UNCHANGED <<offset, requests>>
       ELSE IF CountSatisfied(ExtendCollected(collected, items, total_needed), total_needed)
       THEN \* if len(collected) >= total_needed: break
            /\ LoopExit(ExtendCollected(collected, items, total_needed))
            /\ UNCHANGED <<offset, requests>>
       ELSE \* offset += len(items); await asyncio.sleep(...)
            /\ collected' = ExtendCollected(collected, items, total_needed)
            /\ offset' = NextOffset(offset, items)
            /\ pc' = "sleep"
            /\ UNCHANGED <<city_idx, products, failed, written, handed, requests, outcome>>
    /\ UNCHANGED <<total_needed, page_size, store_ids, started>>

Response == \E items \in PagesAt(offset) : ResponseItems(items)

\* The inter-request delay is over: back to the while head.
SleepDone ==
    /\ UNCHANGED <<enrichVars, itemVars, writeVars>>
    /\ pc = "sleep"
    /\ LoopHead(requests, collected, offset)
    /\ UNCHANGED <<total_needed, page_size, store_ids, offset, responses, started>>

\* await writer.write_products(products): the file is written.
WriteProducts ==
    /\ UNCHANGED <<enrichVars, itemVars, writeVars>>
    /\ pc = "write"
    /\ handed' = [handed EXCEPT ![City] = Some(products)]
    /\ written' = [written EXCEPT ![City] = Some(RowsWritten(products))]
    /\ city_idx' = city_idx + 1
    /\ pc' = "next_city"
    /\ UNCHANGED <<total_needed, page_size, store_ids, collected, offset, products, requests,
                   responses, started, failed, outcome>>

\* await writer.write_products(products): open() raises, caught in main().
WriteFails ==
    /\ UNCHANGED <<enrichVars, itemVars, writeVars>>
    /\ pc = "write"
    /\ handed' = [handed EXCEPT ![City] = Some(products)]
    /\ city_idx' = city_idx + 1
    /\ pc' = "next_city"
    /\ UNCHANGED <<total_needed, page_size, store_ids, collected, offset, products, requests,
                   responses, started, failed, written, outcome>>

\* The for loop of main() is exhausted.
MainReturns ==
    /\ UNCHANGED <<enrichVars, itemVars, writeVars>>
    /\ pc = "next_city"
    /\ city_idx > Len(CITIES)
    /\ pc' = "finished"
    /\ UNCHANGED <<total_needed, page_size, store_ids, city_idx, collected, offset, products,
                   written, requests, responses, started, failed, handed, outcome>>

\* main() passes total_needed = PRODUCTS_PER_STORE; the model runs
\* get_products for every small value of the parameter, with the page size
\* of config.py and with one small enough to be below total_needed, as it
\* is for a caller that asks for more than one page. STORE_IDS is a
\* configuration dict: a city of CITIES without an entry in it is the
\* unknown mapping the except clause of main() is there for.
MainInit ==
    /\ total_needed \in 0..MaxNeeded
    /\ page_size \in {SmallPage, PRODUCTS_PER_STORE}
    /\ store_ids \in SUBSET CityNames
    /\ city_idx = 1
    /\ pc = "next_city"
    /\ collected = <<>>
    /\ offset = 0
    /\ products = <<>>
    /\ written = [c \in CityNames |-> None]
    /\ requests = <<>>
    /\ responses = <<>>
    /\ started = {}
    /\ failed = {}
    /\ handed = [c \in CityNames |-> None]
    /\ outcome = "idle"

\* ------------------------------------------- parse_product (oop_test.py)

\* Raw items handed to process_products_parallel, the one at input position p.
ZeroIdItem(p) == Item(p, IdOf(0), PricesBlock)
NullPricesItem(p) == Item(p, IdOf(p), PricesNull)
EnrichItemsAt(p) == {GoodItem(p), NoIdItem(p), ZeroIdItem(p), NullPricesItem(p)}

\* The input lists of process_products_parallel, up to MaxItems long.
RECURSIVE InputsOfLen(_)
InputsOfLen(k) ==
    IF k = 0 THEN {<<>>}
    ELSE {Append(xs, it) : xs \in InputsOfLen(k - 1), it \in EnrichItemsAt(k)}

EnrichInputs == UNION {InputsOfLen(k) : k \in 0..MaxItems}

\* What get_product_details returns: None after a failed request, else the
\* detail document with its attribute list.
DetailResponses == {None, Some([attributes |-> <<AttrWeight, AttrBrand>>])}

\* prices = product_data.get('prices', {}); prices.get(...) raises
\* AttributeError when "prices" is null.
ParseRaises(item) == item.prices.kind = "null"

\* A slip: "if product_id is None", which lets the id 0 through.
LacksId_OnlyNone(item) == item.id \in {IdMissing, IdNull}

\* product_id = product_data.get('id'); if not product_id: the id is
\* missing, None or 0.
LacksId(item) == item.id \in {IdMissing, IdNull, IdOf(0)}

\* price / 100 when present, then "or 0.0".
PriceOrZero(p) == IF IsNone(p) THEN Div100(0) ELSE Div100(ValueOf(p))

\* extract_brand: the value of the first attribute whose alias or name is
\* the brand's, None without one or without a detail document.
extract_brand(item_detail) ==
    IF IsNone(item_detail) THEN None ELSE FirstBrand(ValueOf(item_detail).attributes)

\* brand or ""
BrandOrEmpty(b) == IF IsNone(b) THEN <<>> ELSE ValueOf(b)

\* The Product parse_product builds once the detail request has ended.
MakeProduct(item, item_detail) ==
    [id |-> ValueOf(item.id),
     name |-> item.name,
     regular_price |-> PriceOrZero(item.prices.priceRegular),
     promo_price |-> PriceOrZero(item.prices.price),
     brand |-> BrandOrEmpty(extract_brand(item_detail))]

\* A slip: a failed detail request drops the item.
ParseResult_DropsOnFailure(item, item_detail) ==
    IF IsNone(item_detail) THEN None ELSE Some(MakeProduct(item, item_detail))

\* What parse_product returns after the detail request: always a Product,
\* with an empty brand when the request failed.
ParseResult(item, item_detail) == Some(MakeProduct(item, item_detail))

\* ---------------------------- process_products_parallel (oop_test.py)

Items == 1..Len(e_products)
InProgress == {i \in Items : task[i] \in {"running", "fetching"}}
Queued == {i \in Items : task[i] = "queued"}
Finished == {i \in Items : task[i] = "finished"}
Yielded == {yielded[k] : k \in 1..Len(yielded)}

\* A slip: one thread per submitted task, whatever max_workers is.
WorkerAvailable_Unbounded(busy, workers) == TRUE

\* ThreadPoolExecutor(max_workers): a queued task starts only when fewer
\* than max_workers worker threads are busy.
WorkerAvailable(busy, workers) == busy < workers

\* A slip: the loop is left after the first completed future.
AsCompletedExhausted_First(ys, n) == ys # <<>> \/ n = 0

\* as_completed has yielded every future: the for loop ends.
AsCompletedExhausted(ys, n) == Len(ys) = n

\* executor.submit(parser.parse_product, product), one call per input item.
Submit ==
    /\ e_pc = "submitting"
    /\ submitted < Len(e_products)
    /\ submitted' = submitted + 1
    /\ task' = [task EXCEPT ![submitted + 1] = "queued"]
    /\ UNCHANGED <<e_products, max_workers, e_pc, fut, finish_order, snapshot,
                   yielded, results, completed, detail_calls, detail_failed>>
    /\ UNCHANGED <<mainVars, itemVars, writeVars>>

\* A worker thread takes the oldest queued task.
WorkerTakes(i) ==
    /\ i \in Queued
    /\ \A j \in Queued : i <= j
    /\ WorkerAvailable(Cardinality(InProgress), max_workers)
    /\ task' = [task EXCEPT ![i] = "running"]
    /\ UNCHANGED <<e_products, max_workers, e_pc, submitted, fut, finish_order,
                   snapshot, yielded, results, completed, detail_calls, detail_failed>>
    /\ UNCHANGED <<mainVars, itemVars, writeVars>>

\* parse_product up to the detail request: the prices, then the id check.
ParseProduct(i) ==
    /\ i \in Items
    /\ task[i] = "running"
    /\ IF ParseRaises(e_products[i]) \/ LacksId(e_products[i])
       THEN \* return None (from the except clause, or for the missing id)
            /\ task' = [task EXCEPT ![i] = "finished"]
            /\ fut' = [fut EXCEPT ![i] = None]
            /\ finish_order' = Append(finish_order, i)
            /\ UNCHANGED detail_calls
       ELSE \* self.api.get_product_details(product_id)
            /\ task' = [task EXCEPT ![i] = "fetching"]
            /\ detail_calls' = [detail_calls EXCEPT ![i] = @ + 1]
            /\ UNCHANGED <<fut, finish_order>>
    /\ UNCHANGED <<e_products, max_workers, e_pc, submitted, snapshot, yielded,
                   results, completed, detail_failed>>
    /\ UNCHANGED <<mainVars, itemVars, writeVars>>

\* A slip: a failed detail request is issued once more.
DetailReturns_Retries(i, item_detail) ==
    /\ i \in Items
    /\ task[i] = "fetching"
    /\ IF IsNone(item_detail) /\ detail_calls[i] < 2
       THEN /\ detail_calls' = [detail_calls EXCEPT ![i] = @ + 1]
            /\ UNCHANGED <<task, fut, finish_order, detail_failed>>
       ELSE /\ task' = [task EXCEPT ![i] = "finished"]
            /\ fut' = [fut EXCEPT ![i] = ParseResult(e_products[i], item_detail)]
            /\ finish_order' = Append(finish_order, i)
            /\ detail_failed' = IF IsNone(item_detail) THEN detail_failed \cup {i}
                                 ELSE detail_failed
            /\ UNCHANGED detail_calls
    /\ UNCHANGED <<e_products, max_workers, e_pc, submitted, snapshot, yielded,
                   results, completed>>
    /\ UNCHANGED <<mainVars, itemVars, writeVars>>

\* get_product_details returns item_detail; parse_product returns the Product.
DetailReturns(i, item_detail) ==
    /\ i \in Items
    /\ task[i] = "fetching"
    /\ task' = [task EXCEPT ![i] = "finished"]
    /\ fut' = [fut EXCEPT ![i] = ParseResult(e_products[i], item_detail)]
    /\ finish_order' = Append(finish_order, i)
    /\ detail_failed' = IF IsNone(item_detail) THEN detail_failed \cup {i} ELSE detail_failed
    /\ UNCHANGED <<e_products, max_workers, e_pc, submitted, snapshot, yielded,
                   results, completed, detail_calls>>
    /\ UNCHANGED <<mainVars, itemVars, writeVars>>

\* concurrent.futures.as_completed(future_to_product) is entered: the
\* futures finished by now are yielded first, in no particular order.
AsCompletedBegins ==
    /\ e_pc = "submitting"
    /\ submitted = Len(e_products)
    /\ e_pc' = "collecting"
    /\ snapshot' = Finished
    /\ UNCHANGED <<e_products, max_workers, submitted, task, fut, finish_order,
                   yielded, results, completed, detail_calls, detail_failed>>
    /\ UNCHANGED <<mainVars, itemVars, writeVars>>

\* A for loop over future_to_product instead of as_completed: the futures
\* are awaited in the order they were submitted.
NextYield_InputOrder ==
    {i \in Finished \ Yielded : \A j \in 1..(i - 1) : j \in Yielded}

\* The future as_completed may yield next: any of the snapshot not yet
\* yielded, and after those the finished futures in the order they finished.
NextYield ==
    IF snapshot \ Yielded # {}
    THEN snapshot \ Yielded
    ELSE {finish_order[k] : k \in {k \in 1..Len(finish_order) :
              /\ finish_order[k] \notin Yielded
              /\ \A m \in 1..(k - 1) : finish_order[m] \in Yielded}}

\* One turn of the for loop: result = future.result(); if result: append.
Collect(i) ==
    /\ e_pc = "collecting"
    /\ i \in NextYield
    /\ yielded' = Append(yielded, i)
    /\ results' = IF IsNone(fut[i]) THEN results ELSE Append(results, ValueOf(fut[i]))
    /\ completed' = completed + 1
    /\ UNCHANGED <<e_products, max_workers, e_pc, submitted, task, fut, finish_order,
                   snapshot, detail_calls, detail_failed>>
    /\ UNCHANGED <<mainVars, itemVars, writeVars>>

\* The for loop is over; the with block shuts the executor down and waits.
Return ==
    /\ e_pc = "collecting"
    /\ AsCompletedExhausted(yielded, Len(e_products))
    /\ Finished = Items    \* shutdown(wait=True)
    /\ e_pc' = "returned"
    /\ UNCHANGED <<e_products, max_workers, submitted, task, fut, finish_order,
                   snapshot, yielded, results, completed, detail_calls, detail_failed>>
    /\ UNCHANGED <<mainVars, itemVars, writeVars>>

EnrichInit ==
    /\ e_products \in EnrichInputs
    /\ max_workers \in 1..MAX_WORKERS
    /\ e_pc = "submitting"
    /\ submitted = 0
    /\ task = [i \in 1..Len(e_products) |-> "unsubmitted"]
    /\ fut = [i \in 1..Len(e_products) |-> None]
    /\ finish_order = <<>>
    /\ snapshot = {}
    /\ yielded = <<>>
    /\ results = <<>>
    /\ completed = 0
    /\ detail_calls = [i \in 1..Len(e_products) |-> 0]
    /\ detail_failed = {}

\* The state of main.py while oop_test.py runs.
MainIdle ==
    /\ total_needed = 0
    /\ page_size = PRODUCTS_PER_STORE
    /\ store_ids = CityNames
    /\ city_idx = 1
    /\ pc = "not_running"
    /\ collected = <<>>
    /\ offset = 0
    /\ products = <<>>
    /\ written = [c \in CityNames |-> None]
    /\ requests = <<>>
    /\ responses = <<>>
    /\ started = {}
    /\ failed = {}
    /\ handed = [c \in CityNames |-> None]
    /\ outcome = "idle"

\* The state of oop_test.py while main.py runs.
EnrichIdle ==
    /\ e_products = <<>>
    /\ max_workers = MAX_WORKERS
    /\ e_pc = "not_running"
    /\ submitted = 0
    /\ task = <<>>
    /\ fut = <<>>
    /\ finish_order = <<>>
    /\ snapshot = {}
    /\ yielded = <<>>
    /\ results = <<>>
    /\ completed = 0
    /\ detail_calls = <<>>
    /\ detail_failed = {}

\* No per-item function is being called on its own.
ItemIdle ==
    /\ r_item = GoodItem(1)
    /\ r_call = "not_running"
    /\ r_out = None

\* No list is being written on its own.
WriteIdle ==
    /\ w_needed = 0
    /\ w_collected = <<>>
    /\ w_pc = "not_running"
    /\ w_products = <<>>
    /\ w_rows = None

Init == MainInit /\ EnrichIdle /\ ItemIdle /\ WriteIdle

Next ==
    \/ StartCity
    \/ ResponseError
    \/ TransportError
    \/ Response
    \/ SleepDone
    \/ WriteProducts
    \/ WriteFails
    \/ MainReturns

Spec == Init /\ [][Next]_vars

InitEnrich == MainIdle /\ EnrichInit /\ ItemIdle /\ WriteIdle

NextEnrich ==
    \/ Submit
    \/ \E i \in Items : WorkerTakes(i)
    \/ \E i \in Items : ParseProduct(i)
    \/ \E i \in Items : \E d \in DetailResponses : DetailReturns(i, d)
    \/ AsCompletedBegins
    \/ \E i \in Items : Collect(i)
    \/ Return

SpecEnrich == InitEnrich /\ [][NextEnrich]_vars

\* Worker threads and the calling thread are scheduled fairly, and every
\* detail request ends (it has a timeout).
FairEnrich == SpecEnrich /\ WF_vars(NextEnrich)

\* The event loop resumes main() whenever what it awaits is ready, and every
\* awaited request, sleep and write ends.
FairSpec == Spec /\ WF_vars(Next)

\* ------------------------------- the per-item functions, one call each

\* The tokens item names are made of: two upper-case words, a capitalised
\* word, a single upper-case letter, and an upper-case letter with a digit.
TokAB == <<"A", "B">>
TokCD == <<"C", "D">>
TokAb == <<"A", "b">>
TokA == <<"A">>
TokB2 == <<"B", "2">>
Tokens == {TokAB, TokCD, TokAb, TokA, TokB2}

RECURSIVE TokenListsOfLen(_)
TokenListsOfLen(k) ==
    IF k = 0 THEN {<<>>}
    ELSE {Append(ts, t) : ts \in TokenListsOfLen(k - 1), t \in Tokens}

RECURSIVE JoinWith(_, _)
JoinWith(parts, sep) ==
    IF parts = <<>> THEN <<>>
    ELSE IF Len(parts) = 1 THEN parts[1]
         ELSE parts[1] \o sep \o JoinWith(Tail(parts), sep)

\* The names of up to MaxTokens tokens: separated by one space, or by two
\* with a space at either end.
ItemNames ==
    UNION {{JoinWith(ts, <<" ">>), <<" ">> \o JoinWith(ts, <<" ", " ">>) \o <<" ">>} :
              ts \in UNION {TokenListsOfLen(k) : k \in 0..MaxTokens}}

\* Attributes that match by name only and by alias only; the second has an
\* empty value.
AttrBrandByName == [alias |-> "trademark", name |-> "Brend", value |-> <<"L", "a", "y">>]
AttrBrandByAlias == [alias |-> "brand", name |-> "Marka", value |-> <<>>]
Attributes == {AttrWeight, AttrBrand, AttrBrandByName, AttrBrandByAlias}

RECURSIVE AttrListsOfLen(_)
AttrListsOfLen(k) ==
    IF k = 0 THEN {<<>>}
    ELSE {Append(as, a) : as \in AttrListsOfLen(k - 1), a \in Attributes}

AttrLists == UNION {AttrListsOfLen(k) : k \in 0..MaxAttrs}

\* Prices in the subunit, and the "prices" entries made of them: either
\* price may be missing from the block.
PriceValues == {0, 1, 99, 100, 9900, 12999}
OptPrices == {None} \cup {Some(p) : p \in PriceValues}
PricesEntries ==
    {PricesMissing, PricesNull} \cup
    {[kind |-> "block", priceRegular |-> r, price |-> p] : r \in OptPrices, p \in OptPrices}

\* The "id" entries: missing, null, 0 and 1.
IdEntries == {IdMissing, IdNull, IdOf(0), IdOf(1)}

\* The items a per-item function is called with: every name with every
\* attribute list, and every "prices" entry with every "id" entry.
CallItems ==
    {[id |-> IdOf(1), name |-> nm, prices |-> PricesBlock, attributes |-> as] :
        nm \in ItemNames, as \in AttrLists}
    \cup
    {[id |-> id, name |-> NameCola, prices |-> pr, attributes |-> <<>>] :
        pr \in PricesEntries, id \in IdEntries}

\* The detail documents of an item: none (the request failed), or one with
\* the item's attribute list.
DetailsOf(item) == {None, Some([attributes |-> item.attributes])}

\* self._extract_brand(item)
CallExtractBrand ==
    /\ r_call = "none"
    /\ r_call' = "_extract_brand"
    /\ r_out' = ExtractBrand(r_item)
    /\ UNCHANGED r_item
    /\ UNCHANGED <<mainVars, enrichVars, writeVars>>

\* One element of the list comprehension of get_products, or its KeyError.
CallFormatItem ==
    /\ r_call = "none"
    /\ r_call' = "get_products"
    /\ r_out' = IF FormatRaises(r_item) THEN None ELSE Some(FormatItem(r_item))
    /\ UNCHANGED r_item
    /\ UNCHANGED <<mainVars, enrichVars, writeVars>>

\* parser.extract_brand(item_detail)
CallExtractBrandOfDetail(item_detail) ==
    /\ r_call = "none"
    /\ r_call' = "extract_brand"
    /\ r_out' = [item_detail |-> item_detail, brand |-> extract_brand(item_detail)]
    /\ UNCHANGED r_item
    /\ UNCHANGED <<mainVars, enrichVars, writeVars>>

\* parser.parse_product(product_data), the detail request answering item_detail.
CallParseProduct(item_detail) ==
    /\ r_call = "none"
    /\ r_call' = "parse_product"
    /\ r_out' = [item_detail |-> item_detail,
                  product |-> IF ParseRaises(r_item) \/ LacksId(r_item)
                              THEN None
                              ELSE ParseResult(r_item, item_detail)]
    /\ UNCHANGED r_item
    /\ UNCHANGED <<mainVars, enrichVars, writeVars>>

ItemInit ==
    /\ r_item \in CallItems
    /\ r_call = "none"
    /\ r_out = None

InitItem == MainIdle /\ EnrichIdle /\ ItemInit /\ WriteIdle

NextItem ==
    \/ CallExtractBrand
    \/ CallFormatItem
    \/ \E d \in DetailsOf(r_item) : CallExtractBrandOfDetail(d)
    \/ \E d \in DetailsOf(r_item) : CallParseProduct(d)

SpecItem == InitItem /\ [][NextItem]_vars

\* ------------------- the end of get_products, then write_products

\* What get_products has collected when it leaves its loop with m items:
\* the items at the source positions 1..m, each with id and prices.
CollectedOfLen(m) == [p \in 1..m |-> GoodItem(p)]

\* collected = collected[:total_needed] and the list comprehension: the
\* list get_products returns, which main() hands to write_products.
FormatCollected ==
    /\ w_pc = "loop_left"
    /\ w_products' = FormattedProducts(Truncate(w_collected, w_needed))
    /\ w_pc' = "write"
    /\ UNCHANGED <<w_needed, w_collected, w_rows>>
    /\ UNCHANGED <<mainVars, enrichVars, itemVars>>

\* write_products: the header, then writer.writerows(products[:100]).
WriteRows ==
    /\ w_pc = "write"
    /\ w_rows' = Some(RowsWritten(w_products))
    /\ w_pc' = "done"
    /\ UNCHANGED <<w_needed, w_collected, w_products>>
    /\ UNCHANGED <<mainVars, enrichVars, itemVars>>

\* write_products: open() raises, no file is written.
WriteRowsFails ==
    /\ w_pc = "write"
    /\ w_pc' = "done"
    /\ UNCHANGED <<w_needed, w_collected, w_products, w_rows>>
    /\ UNCHANGED <<mainVars, enrichVars, itemVars>>

\* total_needed up to MaxOver beyond the row limit, and any number of
\* collected items up to it (the loop never collects more).
WriteInit ==
    /\ w_needed \in 0..(CSV_MAX_ROWS + MaxOver)
    /\ w_collected \in {CollectedOfLen(m) : m \in 0..w_needed}
    /\ w_pc = "loop_left"
    /\ w_products = <<>>
    /\ w_rows = None

InitWrite == MainIdle /\ EnrichIdle /\ ItemIdle /\ WriteInit

NextWrite ==
    \/ FormatCollected
    \/ WriteRows
    \/ WriteRowsFails

SpecWrite == InitWrite /\ [][NextWrite]_vars

\* ----------------------------------------------------------- properties

RECURSIVE SumN(_)
SumN(rs) == IF rs = <<>> THEN 0 ELSE rs[1].n + SumN(Tail(rs))

AllOk(rs) == \A i \in 1..Len(rs) : rs[i].status = 200
LastResponse == responses[Len(responses)]

\* A listing response with items has just been handled.
HandledItems ==
    /\ pc = "await_response"
    /\ Len(responses') = Len(responses) + 1
    /\ responses'[Len(responses')].status = 200
    /\ responses'[Len(responses')].n > 0

\* C1: get_products returns at most total_needed records; and when every
\* response succeeded, the source yielded fewer than total_needed items (all
\* of them raw items with an identifier and a price block) and then an empty
\* page, it returns, and returns exactly as many records as were yielded.
C1_AtMostNeeded ==
    /\ outcome \in {"returned", "aborted"} => Len(products) <= total_needed
    /\ ( /\ outcome \in {"returned", "raised"}
         /\ AllOk(responses)
         /\ SumN(responses) < total_needed
         /\ ~FormattingRaises(collected) )
       => /\ outcome = "returned"
          /\ Len(products) = SumN(responses)

\* C1 witness: the source was exhausted after yielding fewer items than needed.
C1_Witness ==
    /\ outcome = "returned"
    /\ Len(responses) = 3
    /\ LastResponse.n = 0
    /\ SumN(responses) = 2
    /\ total_needed = 3
    /\ Len(products) = 2

\* C2 as claimed: after every successful listing response with items the
\* offset has advanced by the number of items in that response.
C2_OffsetAlwaysAdvances ==
    [][HandledItems => offset' = offset + responses'[Len(responses')].n]_vars

\* C2 amended: a response with items that leaves the count unsatisfied
\* advances the offset by the number of items returned, all of which were
\* appended; the response that satisfies the count leaves the offset as it was.
C2_OffsetAdvancesWhileNeeded ==
    [][HandledItems =>
         IF Len(collected) + responses'[Len(responses')].n < total_needed
         THEN /\ pc' = "sleep"
              /\ offset' = offset + responses'[Len(responses')].n
              /\ Len(collected') = Len(collected) + responses'[Len(responses')].n
         ELSE /\ pc' # "sleep"
              /\ offset' = offset]_vars

\* C2 witness: needed 3, pages of 2 and 2; the second page returned more than
\* the one item still needed and the offset stayed at 2.
C2_Witness ==
    /\ outcome = "returned"
    /\ total_needed = 3
    /\ Len(responses) = 2
    /\ responses[1].n = 2
    /\ responses[2].n = 2
    /\ Len(products) = 3
    /\ offset = 2

\* C3: after a response whose status is not 200 the result is empty, whatever
\* had been collected, and no listing request follows the failed one.
C3_ErrorAborts ==
    outcome = "aborted" =>
        /\ products = <<>>
        /\ LastResponse.status # 200
        /\ Len(requests) = Len(responses)
        /\ pc \in {"write", "next_city", "finished"}

\* C3 witness: the error came on a later page, after items had been collected.
C3_Witness ==
    /\ outcome = "aborted"
    /\ Len(responses) = 2
    /\ Len(collected) > 0
    /\ products = <<>>

\* C4: every city of CITIES is eventually started, whatever happened to the
\* cities before it.
C4_EveryCityStarted == <>(started = CityNames)

\* C4 witness: the second city is being processed after the first one failed.
C4_Witness ==
    /\ CITIES[1] \in failed
    /\ CITIES[2] \in started
    /\ pc = "await_response"

\* C5: for a city whose harvesting failed, write_products was not called or
\* was called with the empty list.
C5_FailedCityWritesNothing ==
    \A c \in failed : handed[c] = None \/ handed[c] = Some(<<>>)

\* C5 witness: a city failed after items had been collected and the empty
\* list was handed to the writer.
C5_Witness ==
    /\ pc = "next_city"
    /\ outcome = "aborted"
    /\ Len(collected) > 0
    /\ CITIES[city_idx - 1] \in failed
    /\ handed[CITIES[city_idx - 1]] = Some(<<>>)

\* C7 as claimed, for get_products: an item lacking a required field is the
\* only one dropped; every other collected item is in the returned list.
C7_OnlyBadItemDropped ==
    outcome \in {"returned", "raised"} =>
        \A i \in 1..Len(collected) :
            ~FormatRaises(collected[i]) =>
                \E j \in 1..Len(products) : products[j].id = ValueOf(collected[i].id)

\* The items parse_product returns None for without issuing a request.
DroppedAtParse ==
    {i \in Items : \/ e_products[i].id \in {IdMissing, IdNull, IdOf(0)}
                   \/ e_products[i].prices.kind = "null"}

\* The items without a usable identifier (missing, null, or the falsy 0).
WithoutId == {i \in Items : e_products[i].id \in {IdMissing, IdNull, IdOf(0)}}

ResultIds == {results[k].id : k \in 1..Len(results)}

\* C6 as claimed: the output has one record per input item except those
\* dropped for their data and those whose detail request failed, and an item
\* whose detail request failed is not in the output.
C6_FailedFetchDropped ==
    e_pc = "returned" =>
        /\ Len(results) = Len(e_products) - Cardinality(DroppedAtParse)
                                          - Cardinality(detail_failed)
        /\ \A i \in detail_failed : ValueOf(e_products[i].id) \notin ResultIds

\* C6 amended: the output has one record per input item except those
\* parse_product drops before the request (no id, id 0, null price block);
\* an item whose detail request failed is in the output with an empty brand.
C6_FailedFetchKept ==
    e_pc = "returned" =>
        /\ Len(results) = Len(e_products) - Cardinality(DroppedAtParse)
        /\ \A i \in detail_failed :
              \E k \in 1..Len(results) :
                  /\ results[k].id = ValueOf(e_products[i].id)
                  /\ results[k].brand = <<>>
        /\ \A i \in Items \ DroppedAtParse : ValueOf(e_products[i].id) \in ResultIds

\* C6 witness: of three items one had no id and one's detail request failed;
\* two records came out.
C6_Witness ==
    /\ e_pc = "returned"
    /\ Len(e_products) = 3
    /\ Cardinality(DroppedAtParse) = 1
    /\ Cardinality(detail_failed) = 1
    /\ Len(results) = 2

\* C8 as claimed: an item without an identifier is never submitted to the
\* pool, no detail request is issued for it and it yields no record.
C8_NeverSubmitted ==
    \A i \in WithoutId :
        /\ task[i] = "unsubmitted"
        /\ detail_calls[i] = 0
        /\ fut[i] = None

\* C8 amended: an item without an identifier is submitted like every other
\* item; its task ends at the id check inside parse_product, so no detail
\* request is ever issued for it and it yields no record.
C8_DroppedInsideTask ==
    \A i \in WithoutId :
        /\ e_pc # "submitting" => task[i] # "unsubmitted"
        /\ task[i] # "fetching"
        /\ detail_calls[i] = 0
        /\ fut[i] = None
        /\ e_pc = "returned" => task[i] = "finished" /\ i \in Yielded

\* C8 witness: an item without an identifier ran as a task and was yielded by
\* as_completed, next to an item that was fetched.
C8_Witness ==
    /\ e_pc = "returned"
    /\ \E i \in WithoutId : task[i] = "finished" /\ i \in Yielded /\ detail_calls[i] = 0
    /\ \E j \in Items : detail_calls[j] = 1
    /\ Len(results) = 1

\* C9: at most max_workers parse_product executions are in progress.
C9_BoundedWorkers == Cardinality(InProgress) <= max_workers

\* C9 witness: both workers are busy with a detail request while a third
\* task waits in the queue.
C9_Witness ==
    /\ max_workers = 2
    /\ Cardinality({i \in Items : task[i] = "fetching"}) = 2
    /\ Queued # {}

\* C10: process_products_parallel returns only once every task has
\* finished and every record produced is in the output, and it does return.
C10_ReturnsWhenAllResolved ==
    /\ [](e_pc = "returned" =>
            /\ Finished = Items
            /\ Len(yielded) = Len(e_products)
            /\ \A i \in Items : fut[i] # None =>
                   \E k \in 1..Len(results) : results[k] = ValueOf(fut[i]))
    /\ <>(e_pc = "returned")

\* C10 witness: it returned with three records although the task submitted
\* first finished last.
C10_Witness ==
    /\ e_pc = "returned"
    /\ Len(results) = 3
    /\ finish_order[3] = 1

\* The records of the tasks of a sequence of task numbers, in that order,
\* the tasks that produced none left out.
RECURSIVE RecordsOf(_)
RecordsOf(is) ==
    IF is = <<>> THEN <<>>
    ELSE IF IsNone(fut[Head(is)]) THEN RecordsOf(Tail(is))
         ELSE <<ValueOf(fut[Head(is)])>> \o RecordsOf(Tail(is))

PosIn(seq, x) == CHOOSE k \in 1..Len(seq) : seq[k] = x

\* C11 as stated: the output holds exactly one record for each task that
\* produced one, in the order in which the tasks completed.
C11_CompletionOrder ==
    e_pc = "returned" => results = RecordsOf(finish_order)

\* C11: under every interleaving the output holds exactly one record for
\* each task that produced one, none lost and none twice, and the calling
\* thread appends them one at a time; the order is the order as_completed
\* yields the futures: those already finished when the loop starts first, in
\* no particular order, and the others after them in the order they
\* completed.
C11_YieldOrder ==
    /\ [](/\ results = RecordsOf(yielded)
          /\ Yielded \subseteq Finished
          /\ \A a, b \in 1..Len(yielded) : a < b =>
                /\ yielded[a] # yielded[b]
                /\ yielded[b] \in snapshot => yielded[a] \in snapshot
                /\ (yielded[a] \notin snapshot /\ yielded[b] \notin snapshot) =>
                       PosIn(finish_order, yielded[a]) < PosIn(finish_order, yielded[b])
          /\ e_pc = "returned" => Yielded = Items)
    /\ [][results' # results =>
             \E i \in Items : /\ yielded' = Append(yielded, i)
                              /\ fut[i] # None
                              /\ results' = Append(results, ValueOf(fut[i]))]_vars

\* C11 witness: three records were returned, the record of the task that
\* completed second ahead of the record of the task that completed first,
\* both having completed before the loop over as_completed started.
C11_Witness ==
    /\ e_pc = "returned"
    /\ Len(results) = 3
    /\ finish_order[1] \in snapshot /\ finish_order[2] \in snapshot
    /\ yielded[1] = finish_order[2]
    /\ yielded[2] = finish_order[1]
    /\ results # RecordsOf(<<1, 2, 3>>)

\* The position of the first attribute of a list whose alias is the brand
\* alias or whose name is the brand name, 0 without one.
FirstMatching(attrs) ==
    LET Matching == {k \in 1..Len(attrs) : \/ attrs[k].alias = BRAND_ATTRIBUTE_ALIAS
                                           \/ attrs[k].name = BRAND_ATTRIBUTE_NAME}
    IN  IF Matching = {} THEN 0
        ELSE CHOOSE k \in Matching : \A j \in Matching : k <= j

\* C12: for an item whose attribute list has an attribute with the brand
\* alias or the brand name, brand extraction returns the value of the first
\* such attribute, whatever the name is: _extract_brand alone and in the
\* record get_products formats, and extract_brand on a detail document.
C12_FirstBrandAttribute ==
    LET attrs == r_item.attributes
        k == FirstMatching(attrs)
    IN  k # 0 =>
          /\ r_call = "_extract_brand" => r_out = attrs[k].value
          /\ (r_call = "get_products" /\ r_out # None) =>
                 ValueOf(r_out).brand = attrs[k].value
          /\ (r_call = "extract_brand" /\ r_out.item_detail # None) =>
                 r_out.brand = Some(attrs[k].value)
          /\ (r_call = "parse_product" /\ r_out.item_detail # None
                                       /\ r_out.product # None) =>
                 ValueOf(r_out.product).brand = attrs[k].value

\* C12 witness: _extract_brand returned "Lay", the value of the attribute
\* matching by name that comes before the one matching by alias, for an
\* item whose name starts with an upper-case word.
C12_Witness ==
    /\ r_call = "_extract_brand"
    /\ r_item.attributes = <<AttrBrandByName, AttrBrand>>
    /\ r_item.name = JoinWith(<<TokAB, TokAb>>, <<" ">>)
    /\ r_out = <<"L", "a", "y">>

\* C13: for an item without a matching attribute, _extract_brand returns
\* the tokens of the whitespace-split name from the first qualifying one up
\* to the one before the next non-qualifying one, joined with single
\* spaces, and the empty string when no token qualifies.
C13_FirstUpperRun ==
    (r_call = "_extract_brand" /\ FirstMatching(r_item.attributes) = 0) =>
        LET parts == split(r_item.name)
            Q == {i \in 1..Len(parts) : Qualifies(parts[i])}
        IN  IF Q = {} THEN r_out = <<>>
            ELSE LET f == CHOOSE i \in Q : \A j \in Q : i <= j
                     e == CHOOSE j \in f..Len(parts) :
                              /\ \A m \in f..j : m \in Q
                              /\ (j + 1) \notin Q
                 IN  r_out = JoinWith(SubSeq(parts, f, e), <<" ">>)

\* C13 witness: the name "AB Ab CD" (in either spacing) gave "AB": the run
\* ends at "Ab" and the later qualifying token "CD" is ignored.
C13_Witness ==
    /\ r_call = "_extract_brand"
    /\ r_item.attributes = <<AttrWeight>>
    /\ split(r_item.name) = <<TokAB, TokAb, TokCD>>
    /\ r_out = TokAB

\* p / 100 for a subunit price p: the value that times 100 is p.
IsHundredthOf(out, p) == out.whole * 100 + out.frac = p /\ out.frac \in 0..99

\* C14: both pipelines turn a subunit price p into p / 100, the regular and
\* the promotional price alike, and parse_product turns a missing price
\* into 0.0; get_products outputs the record of every item with both prices
\* and an "id" entry, parse_product that of every item with a usable id
\* whose "prices" is not null.
C14_PriceNormalization ==
    LET pr == r_item.prices
    IN  /\ (r_call = "get_products" /\ r_out # None) =>
              /\ IsHundredthOf(ValueOf(r_out).regular_price, ValueOf(pr.priceRegular))
              /\ IsHundredthOf(ValueOf(r_out).promo_price, ValueOf(pr.price))
        /\ (r_call = "get_products" /\ pr.priceRegular # None /\ pr.price # None
                                    /\ r_item.id # IdMissing) =>
              r_out # None
        /\ (r_call = "parse_product" /\ pr.kind # "null"
                                     /\ r_item.id \notin {IdMissing, IdNull, IdOf(0)}) =>
              /\ r_out.product # None
              /\ IF pr.priceRegular # None
                 THEN IsHundredthOf(ValueOf(r_out.product).regular_price,
                                    ValueOf(pr.priceRegular))
                 ELSE ValueOf(r_out.product).regular_price = [whole |-> 0, frac |-> 0]
              /\ IF pr.price # None
                 THEN IsHundredthOf(ValueOf(r_out.product).promo_price, ValueOf(pr.price))
                 ELSE ValueOf(r_out.product).promo_price = [whole |-> 0, frac |-> 0]

\* C14 witness: parse_product turned the regular price 12999 into 129.99
\* and the missing promotional price into 0.0.
C14_Witness ==
    /\ r_call = "parse_product"
    /\ r_item.id = IdOf(1)
    /\ r_item.prices.priceRegular = Some(12999)
    /\ r_item.prices.price = None
    /\ ValueOf(r_out.product).regular_price = [whole |-> 129, frac |-> 99]
    /\ ValueOf(r_out.product).promo_price = [whole |-> 0, frac |-> 0]

\* The requests of the run were all answered with a page that had items.
OnlyNonEmptyPages ==
    /\ Len(requests) = Len(responses)
    /\ \A i \in 1..Len(responses) : responses[i].status = 200 /\ responses[i].n > 0

\* C15: a listing request is outstanding, and the delay before the next one
\* runs, only while fewer than total_needed items are collected; and when
\* get_products ended after non-empty pages only, the number of requests is
\* the least k for which the first k pages hold total_needed items.
C15_RequestsWhileNeeded ==
    /\ pc \in {"await_response", "sleep"} => Len(collected) < total_needed
    /\ (outcome \in {"returned", "raised"} /\ total_needed = 0) => requests = <<>>
    /\ (outcome \in {"returned", "raised"} /\ requests # <<>> /\ OnlyNonEmptyPages) =>
          /\ SumN(responses) >= total_needed
          /\ SumN(SubSeq(responses, 1, Len(responses) - 1)) < total_needed
          /\ Len(collected) = total_needed

\* C15 witness: three items were needed and the pages had two items each:
\* two requests, and three records returned.
C15_Witness ==
    /\ outcome = "returned"
    /\ total_needed = 3
    /\ Len(requests) = 2
    /\ Len(responses) = 2
    /\ responses[1].n = 2 /\ responses[2].n = 2
    /\ Len(products) = 3

\* C16: the offset of each listing request is the number of items the
\* source returned in the earlier responses of the run: 0 for the first.
C16_OffsetIsItemsReturned ==
    \A k \in 1..Len(requests) :
        /\ Len(responses) >= k - 1
        /\ requests[k].offset = SumN(SubSeq(responses, 1, k - 1))

\* C16 witness: the second request of a run, after a page of two items.
C16_Witness ==
    /\ pc = "await_response"
    /\ Len(requests) = 2
    /\ responses[1].n = 2
    /\ requests[1].offset = 0
    /\ requests[2].offset = 2

\* C17: the limit of a listing request is the smaller of the page size and
\* the number of items still needed, so it lies between 1 and the page size
\* and never exceeds what is still needed.
C17_LimitIsMin ==
    /\ pc = "await_response" =>
          LET stillNeeded == total_needed - Len(collected)
              limit == requests[Len(requests)].limit
          IN  /\ limit = IF page_size <= stillNeeded THEN page_size ELSE stillNeeded
              /\ limit <= stillNeeded
    /\ \A k \in 1..Len(requests) :
          /\ 1 <= requests[k].limit
          /\ requests[k].limit <= page_size
          /\ requests[k].limit <= total_needed - SumN(SubSeq(responses, 1, k - 1))

\* C17 witness: with a page size of two and three items needed, the first
\* limit was the page size and the second the one item still needed.
C17_Witness ==
    /\ page_size = 2
    /\ total_needed = 3
    /\ Len(requests) = 2
    /\ requests[1].limit = 2
    /\ requests[2].limit = 1

\* The identifiers of the items the source returned in the responses of
\* the run, in order.
RECURSIVE IdsReturned(_)
IdsReturned(rs) == IF rs = <<>> THEN <<>> ELSE rs[1].ids \o IdsReturned(Tail(rs))

\* C18: after a 200 response without items no further request is issued
\* and get_products has left its loop with every item of the earlier pages,
\* which it returns when all of them are raw items with an identifier and
\* a price block.
C18_EmptyPageEndsLoop ==
    (responses # <<>> /\ LastResponse.status = 200 /\ LastResponse.n = 0) =>
        /\ pc \notin {"await_response", "sleep"}
        /\ Len(requests) = Len(responses)
        /\ outcome \in {"returned", "raised"}
        /\ IdsOf(collected) = IdsReturned(responses)
        /\ ~FormattingRaises(collected) =>
              /\ outcome = "returned"
              /\ Len(products) = Len(collected)
              /\ \A i \in 1..Len(products) : products[i].id = ValueOf(collected[i].id)

\* C18 witness: a page of two items, then an empty page; the two items
\* were returned and written.
C18_Witness ==
    /\ Len(responses) = 2
    /\ responses[1].n = 2
    /\ responses[2].status = 200 /\ responses[2].n = 0
    /\ total_needed = 3
    /\ outcome = "returned"
    /\ Len(products) = 2
    /\ handed[City] # None \/ pc = "write"

\* C19: at most one listing request is outstanding, none while a response
\* is handled or the delay runs; every request after the first is issued by
\* the step that ends a delay; and a delay starts only in the step that
\* handles a response.
C19_Sequential ==
    /\ [](/\ Len(requests) - Len(responses) \in {0, 1}
          /\ pc = "await_response" => Len(requests) = Len(responses) + 1
          /\ pc \in {"sleep", "write"} => Len(requests) = Len(responses))
    /\ [][(Len(requests) >= 1 /\ Len(requests') = Len(requests) + 1) =>
             /\ pc = "sleep"
             /\ Len(responses) = Len(requests)
             /\ responses' = responses]_vars
    /\ [][(pc' = "sleep" /\ pc # "sleep") =>
             /\ pc = "await_response"
             /\ Len(responses') = Len(responses) + 1
             /\ requests' = requests]_vars

\* C19 witness: the delay after the second response runs, no request is
\* outstanding.
C19_Witness ==
    /\ pc = "sleep"
    /\ Len(requests) = 2
    /\ Len(responses) = 2

\* C20: when no response failed, the identifiers of the records
\* get_products returned are those of the first items the source returned,
\* in the order it returned them.
C20_SourceOrder ==
    (outcome = "returned" /\ AllOk(responses)) =>
        /\ Len(products) <= Len(IdsReturned(responses))
        /\ \A i \in 1..Len(products) :
               Some(products[i].id) = IdsReturned(responses)[i]

\* C20 witness: three records from two pages of two items, in source order.
C20_Witness ==
    /\ outcome = "returned"
    /\ Len(responses) = 2
    /\ Len(IdsReturned(responses)) = 4
    /\ Len(products) = 3
    /\ products[1].id = Some(1) /\ products[2].id = Some(2) /\ products[3].id = Some(3)

\* C21: write_products writes, after the header, the first min(len, 100)
\* records of its input in input order and nothing else, so the rows of a
\* file are at most min(total_needed, 100).
C21_FirstHundredRows ==
    (w_pc = "done" /\ w_rows # None) =>
        LET rows == ValueOf(w_rows)
            k == IF Len(w_products) <= 100 THEN Len(w_products) ELSE 100
        IN  /\ Len(rows) = k
            /\ \A i \in 1..k : rows[i] = w_products[i]
            /\ Len(rows) <= w_needed
            /\ Len(rows) <= 100

\* C21 witness: 102 records were handed to write_products and the file
\* holds the first 100 of them.
C21_Witness ==
    /\ w_pc = "done"
    /\ Len(w_products) = 102
    /\ w_rows # None
    /\ Len(ValueOf(w_rows)) = 100
    /\ ValueOf(w_rows)[100].id = Some(100)

\* The input items that carry an "id" entry that is not null.
WithId == {i \in Items : e_products[i].id \notin {IdMissing, IdNull}}

\* The input items parse_product takes as far as the detail request: the
\* id is there and not 0, and "prices" is not null.
ReachDetail ==
    {i \in Items : /\ e_products[i].id \notin {IdMissing, IdNull, IdOf(0)}
                   /\ e_products[i].prices.kind # "null"}

\* C22 as stated: by the end of the run exactly one detail request was
\* issued for every input item that has an identifier.
C22_OnePerIdentifier ==
    /\ \A i \in Items : detail_calls[i] <= 1
    /\ e_pc = "returned" => \A i \in WithId : detail_calls[i] = 1

\* C22: at most one detail request is ever issued for an input item, also
\* when it fails; by the end of the run exactly one was issued for every
\* item whose id is there and not 0 and whose "prices" is not null, and none
\* for any other item.
C22_OnePerFetchedItem ==
    /\ \A i \in Items : detail_calls[i] <= 1
    /\ \A i \in Items \ ReachDetail : detail_calls[i] = 0
    /\ \A i \in detail_failed : detail_calls[i] = 1 /\ task[i] = "finished"
    /\ e_pc = "returned" => \A i \in ReachDetail : detail_calls[i] = 1

\* C22 witness: the run ended with one request each for an item whose
\* request failed and one whose request succeeded, and none for an item
\* that has an id and null prices.
C22_Witness ==
    /\ e_pc = "returned"
    /\ \E i \in detail_failed : detail_calls[i] = 1
    /\ \E i \in ReachDetail \ detail_failed : detail_calls[i] = 1
    /\ \E i \in WithId \ ReachDetail :
           e_products[i].prices.kind = "null" /\ detail_calls[i] = 0

\* A listing response has just been handled.
Handled(status) ==
    /\ pc = "await_response"
    /\ Len(responses') = Len(responses) + 1
    /\ responses'[Len(responses')].status = status

\* C23: every handled response is an error, which ends get_products, an
\* empty page, which ends its loop, or a page with items, which adds at
\* least one item to collected; so at most total_needed listing requests are
\* issued in a run, none when total_needed is 0, and every run of
\* get_products ends: main() gets through all its cities.
C23_Terminates ==
    /\ [](Len(requests) <= total_needed)
    /\ [][Handled(500) => outcome' = "aborted" /\ pc' = "write"]_vars
    /\ [][Handled(200) =>
             IF responses'[Len(responses')].n = 0
             THEN pc' \notin {"await_response", "sleep"} /\ requests' = requests
             ELSE Len(collected') > Len(collected)]_vars
    /\ [](pc \in {"await_response", "sleep"} => outcome = "running")
    /\ <>(pc = "finished")

\* C23 witness: the last run of get_products needed three items, got them
\* one per page with three requests, and main() has ended.
C23_Witness ==
    /\ pc = "finished"
    /\ total_needed = 3
    /\ Len(requests) = 3
    /\ Len(responses) = 3
    /\ outcome = "returned"

====
